---- MODULE Spec2Model ----
(***************************************************************************)
(* Electric field conjugation tutorial (doc/tutorial_notebooks, the EFC    *)
(* notebook): get_image, get_jacobian_matrix and run_efc as a state        *)
(* machine over the notebook's module-level variables.                     *)
(*                                                                         *)
(* Numbers.  The notebook computes with numpy floats.  The model computes  *)
(* with exact dyadic rationals  (-1)^neg * mag / 2^exp  whose mantissa is  *)
(* an arbitrary-precision natural (little-endian limbs), so that halving   *)
(* (loop gain 0.5) and fifty loop iterations are exact.  Lengths are in    *)
(* nanometres: the notebook's epsilon = 1e-9 m is the number 1.            *)
(***************************************************************************)
EXTENDS Integers, Sequences, FiniteSets, TLC

(***************************************************************************)
(* The state of a notebook session.                                        *)
(***************************************************************************)
VARIABLES
    train,               \* the optical train behind get_image
    section,             \* "1dm": get_image of line 112; "2dm": of line 384
    dark_zone,           \* module level: the one-sided dark zone
    dark_zone_twosided,  \* module level: the two-sided dark zone, once made
    epsilon,             \* module level: the probe amplitude
    efc_loop_gain,       \* module level: the loop gain
    mirrors,             \* the vectors last assigned to deformable_mirror,
                         \* dm1 and dm2
    jacobian,            \* module level: the last Jacobian returned
    pc,                  \* where the running call stands; "idle" outside calls
    gj,                  \* the locals of a running get_jacobian_matrix
    efc,                 \* the locals of a running run_efc
    returned,            \* the last call that returned: fn, args, env, value
    returned_prev,       \* the call that returned before it
    raised,              \* the exception that ended the last call, if one did
    images_seen,         \* the top-level get_image calls, in order
    calls                \* the number of top-level calls made

vars ==
    <<train, section, dark_zone, dark_zone_twosided, epsilon, efc_loop_gain,
      mirrors, jacobian, pc, gj, efc, returned, returned_prev, raised,
      images_seen, calls>>

(***************************************************************************)
(* Arbitrary-precision naturals: sequences of limbs, least significant     *)
(* first, no most-significant zero limb; zero is the empty sequence.       *)
(***************************************************************************)
Base == 16384

\* Base = 2^LimbBits
LimbBits == 14

RECURSIVE MagTrim(_)
MagTrim(s) ==
    IF s = <<>> THEN <<>>
    ELSE IF s[Len(s)] = 0 THEN MagTrim(SubSeq(s, 1, Len(s) - 1))
    ELSE s

RECURSIVE MagAddC(_, _, _)
MagAddC(a, b, c) ==
    IF a = <<>> /\ b = <<>> THEN (IF c = 0 THEN <<>> ELSE <<c>>)
    ELSE LET x == IF a = <<>> THEN 0 ELSE Head(a)
             y == IF b = <<>> THEN 0 ELSE Head(b)
             t == x + y + c
         IN  <<t % Base>> \o MagAddC(IF a = <<>> THEN <<>> ELSE Tail(a),
                                     IF b = <<>> THEN <<>> ELSE Tail(b),
                                     t \div Base)

MagAdd(a, b) == MagAddC(a, b, 0)

RECURSIVE MagSubB(_, _, _)
MagSubB(a, b, br) ==
    IF a = <<>> THEN <<>>
    ELSE LET y == IF b = <<>> THEN 0 ELSE Head(b)
             t == Head(a) - y - br
         IN  <<IF t < 0 THEN t + Base ELSE t>>
                 \o MagSubB(Tail(a), IF b = <<>> THEN <<>> ELSE Tail(b),
                            IF t < 0 THEN 1 ELSE 0)

\* a - b for a >= b
MagSub(a, b) == MagTrim(MagSubB(a, b, 0))

RECURSIVE MagLess(_, _)
MagLess(a, b) ==
    IF Len(a) # Len(b) THEN Len(a) < Len(b)
    ELSE IF a = <<>> THEN FALSE
    ELSE IF a[Len(a)] # b[Len(b)] THEN a[Len(a)] < b[Len(b)]
    ELSE MagLess(SubSeq(a, 1, Len(a) - 1), SubSeq(b, 1, Len(b) - 1))

RECURSIVE MagMulSmallC(_, _, _)
MagMulSmallC(a, k, c) ==
    IF a = <<>> THEN (IF c = 0 THEN <<>> ELSE <<c>>)
    ELSE LET t == Head(a) * k + c
         IN  <<t % Base>> \o MagMulSmallC(Tail(a), k, t \div Base)

\* a * k for a limb k
MagMulSmall(a, k) == IF k = 0 THEN <<>> ELSE MagMulSmallC(a, k, 0)

RECURSIVE MagMul(_, _)
MagMul(a, b) ==
    IF a = <<>> \/ b = <<>> THEN <<>>
    ELSE LET r == MagMul(a, Tail(b))
         IN  MagAdd(MagMulSmall(a, Head(b)), IF r = <<>> THEN <<>> ELSE <<0>> \o r)

RECURSIVE Pow2(_)
Pow2(k) == IF k = 0 THEN 1 ELSE 2 * Pow2(k - 1)

\* the number of trailing zero bits of a limb n > 0
RECURSIVE TrailingZeros(_)
TrailingZeros(n) == IF n % 2 = 1 THEN 0 ELSE 1 + TrailingZeros(n \div 2)

\* floor(a / 2^j) for j < LimbBits
MagShrSmall(a, j) ==
    LET d == Pow2(j)
    IN  MagTrim([i \in 1..Len(a) |->
                    (a[i] \div d)
                    + (IF i < Len(a) THEN (a[i + 1] % d) * (Base \div d) ELSE 0)])

\* floor(a / 2)
MagHalf(a) == MagShrSmall(a, 1)

\* m * 2^k
RECURSIVE MagShl(_, _)
MagShl(m, k) ==
    IF m = <<>> \/ k = 0 THEN m
    ELSE IF k >= LimbBits THEN <<0>> \o MagShl(m, k - LimbBits)
    ELSE MagMulSmall(m, Pow2(k))

\* m is a power of two: zero limbs below a most significant limb 2^j
MagIsPow2(m) ==
    /\ m # <<>>
    /\ \A i \in 1..(Len(m) - 1) : m[i] = 0
    /\ m[Len(m)] = Pow2(TrailingZeros(m[Len(m)]))

\* log2 of a power of two
MagLog2(m) == (Len(m) - 1) * LimbBits + TrailingZeros(m[Len(m)])

(***************************************************************************)
(* Dyadic rationals in canonical form: zero is DZero, and a number with    *)
(* exp > 0 has an odd mantissa.  Equal values are equal records.           *)
(***************************************************************************)
DZero == [neg |-> FALSE, mag |-> <<>>, exp |-> 0]

RECURSIVE DNorm(_, _, _)
DNorm(neg, mag, exp) ==
    IF mag = <<>> THEN DZero
    ELSE IF exp >= LimbBits /\ mag[1] = 0 THEN DNorm(neg, Tail(mag), exp - LimbBits)
    ELSE IF exp > 0 /\ mag[1] % 2 = 0
         THEN LET z == IF mag[1] = 0 THEN LimbBits - 1 ELSE TrailingZeros(mag[1])
                  j == IF z > exp THEN exp ELSE z
              IN  DNorm(neg, MagShrSmall(mag, j), exp - j)
    ELSE [neg |-> neg, mag |-> mag, exp |-> exp]

\* the integer n
DInt(n) ==
    LET m == IF n < 0 THEN -n ELSE n
    IN  [neg |-> n < 0,
         mag |-> MagTrim(<<m % Base, (m \div Base) % Base, m \div (Base * Base)>>),
         exp |-> 0]

\* num / 2^k
DFrac(num, k) == LET n == DInt(num) IN DNorm(n.neg, n.mag, k)

DNeg(x) == IF x.mag = <<>> THEN x ELSE [x EXCEPT !.neg = ~x.neg]

DAdd(x, y) ==
    LET e == IF x.exp > y.exp THEN x.exp ELSE y.exp
        a == MagShl(x.mag, e - x.exp)
        b == MagShl(y.mag, e - y.exp)
    IN  IF x.neg = y.neg THEN DNorm(x.neg, MagAdd(a, b), e)
        ELSE IF MagLess(a, b) THEN DNorm(y.neg, MagSub(b, a), e)
        ELSE DNorm(x.neg, MagSub(a, b), e)

DSub(x, y) == DAdd(x, DNeg(y))

DMul(x, y) == DNorm(x.neg # y.neg, MagMul(x.mag, y.mag), x.exp + y.exp)

DLess(x, y) == DSub(x, y).neg

\* x / y, defined for the divisors the model meets: y = +-2^k, k an integer.
\* Any other divisor stops the evaluation (an empty CHOOSE).
DDiv(x, y) ==
    IF MagIsPow2(y.mag)
    THEN DNorm(x.neg # y.neg, MagShl(x.mag, y.exp), x.exp + MagLog2(y.mag))
    ELSE CHOOSE q \in {} : TRUE


(***************************************************************************)
(* Real vectors, complex samples, matrices (sequences of rows).            *)
(***************************************************************************)
\* Python's None, for each kind of value that may be None: an argument
\* (actuators, rcond) says whether it was given, an absent matrix or mask is
\* the empty sequence, an absent record names nothing
NoActuators == [given |-> FALSE, value |-> <<>>]

Given(v) == [given |-> TRUE, value |-> v]

RcondOmitted == [given |-> FALSE, num |-> 0, den |-> 1]

Rcond(n, d) == [given |-> TRUE, num |-> n, den |-> d]

NoMatrix == <<>>

NoCall == [fn |-> "none"]

NoError == [error |-> "none"]

NoImage == [electric_field |-> <<>>, intensity |-> <<>>]

Min(a, b) == IF a < b THEN a ELSE b

RECURSIVE DSum(_)
DSum(v) == IF v = <<>> THEN DZero ELSE DAdd(Head(v), DSum(Tail(v)))

\* a variant of np.zeros that fills with ones
Ones(n) == [j \in 1..n |-> [neg |-> FALSE, mag |-> <<1>>, exp |-> 0]]

\* np.zeros(n)
Zeros(n) == [j \in 1..n |-> DZero]

\* row i of np.eye(n)
EyeRow(n, i) == [j \in 1..n |-> IF j = i THEN DInt(1) ELSE DZero]

\* a * v for a scalar a and a real vector v
VecScale(a, v) == [j \in 1..Len(v) |-> DMul(a, v[j])]

CZero == [re |-> DZero, im |-> DZero]

CAdd(x, y) == [re |-> DAdd(x.re, y.re), im |-> DAdd(x.im, y.im)]

\* a * z for a real a and a complex z
CScale(a, z) == [re |-> DMul(a, z.re), im |-> DMul(a, z.im)]

\* z / a for a real a
CDivReal(z, a) == [re |-> DDiv(z.re, a), im |-> DDiv(z.im, a)]

\* Wavefront.intensity: the squared magnitude of the electric field
Intensity(field) ==
    [p \in 1..Len(field) |->
        DAdd(DMul(field[p].re, field[p].re), DMul(field[p].im, field[p].im))]

\* np.array(responses).T
Transpose(m) ==
    IF m = <<>> THEN <<>>
    ELSE [r \in 1..Len(m[1]) |-> [c \in 1..Len(m) |-> m[c][r]]]

\* the indices a boolean mask selects, in increasing order
RECURSIVE Selected(_, _)
Selected(mask, p) ==
    IF p > Len(mask) THEN <<>>
    ELSE (IF mask[p] THEN <<p>> ELSE <<>>) \o Selected(mask, p + 1)

\* field[dark_zone] for a boolean mask of the field's length
MaskIndex(field, mask) ==
    LET idx == Selected(mask, 1) IN [k \in 1..Len(idx) |-> field[idx[k]]]

\* numpy raises IndexError when a boolean index has not the indexed length
MaskIndexRaises(field, mask) == Len(mask) # Len(field)

\* np.concatenate((z.real, z.imag))
StackRealImag(z) ==
    [k \in 1..(2 * Len(z)) |->
        IF k <= Len(z) THEN z[k].re ELSE z[k - Len(z)].im]

\* matrix.dot(x) raises ValueError unless every row has len(x) entries
DotRaises(m, x) == \E r \in 1..Len(m) : Len(m[r]) # Len(x)

\* matrix.dot(x)
Dot(m, x) ==
    [r \in 1..Len(m) |-> DSum([c \in 1..Len(x) |-> DMul(m[r][c], x[c])])]

(***************************************************************************)
(* The optical train (aperture, aberration, deformable mirror(s),          *)
(* coronagraph, propagator): library code the notebook calls.  The model   *)
(* takes a family of synthetic trains  field = response(actuators) +       *)
(* aberration : actuators 2p-1 and 2p drive focal sample p along two       *)
(* orthogonal directions of the complex plane, with gains 1 and 2 and an   *)
(* optional cubic term.                                                    *)
(***************************************************************************)
\* len(influence_functions): actuators per mirror (32 * 32 in the notebook)
NumActuators == 2

\* the number of samples of focal_grid
NumPixels == 2

Trains ==
    [mix : BOOLEAN, cubic : {0, 1}, broken : {FALSE}, aliased : {FALSE}]

LinearTrains == {t \in Trains : t.cubic = 0}

\* the static aberration's field at sample p
Aberration(t, p) ==
    [re |-> DInt(2 * p - 1), im |-> DInt(IF t.mix THEN p - 2 ELSE 2 - p)]

\* the sample actuator j drives, its direction and its linear gain
PixelOf(j) == (j + 1) \div 2

Direction(t, j) ==
    IF t.mix
    THEN [re |-> DInt(1), im |-> DInt(IF j % 2 = 1 THEN 1 ELSE -1)]
    ELSE IF j % 2 = 1 THEN [re |-> DInt(1), im |-> DZero]
    ELSE [re |-> DZero, im |-> DInt(1)]

GainOf(j) == IF j % 2 = 1 THEN 1 ELSE 2

\* the scalar response of actuator j to the command a
Poly(t, j, a) ==
    DAdd(DMul(DInt(GainOf(j)), a), DMul(DInt(t.cubic), DMul(a, DMul(a, a))))

\* the commands on the mirrors in beam order
Commands(sec, m) ==
    IF sec = "1dm" THEN m.deformable_mirror ELSE m.dm1 \o m.dm2

\* a mirror holding a command vector of the wrong length cannot form its
\* surface: the propagation raises
PropagateRaises(sec, m) ==
    IF sec = "1dm" THEN Len(m.deformable_mirror) # NumActuators
    ELSE Len(m.dm1) # NumActuators \/ Len(m.dm2) # NumActuators

\* a train whose physical parameters have become invalid cannot propagate:
\* every evaluation raises
PropagateFails(t) == t.broken

\* whether the mirrors' actuators setter keeps the array it is given (and a
\* slice of an array is a view of it), so that the mirrors follow a later
\* in-place change of that array, or stores a copy of it
SetterKeepsArray(t) == t.aliased

\* prop(coronagraph(deformable_mirror(wf))): the focal-plane electric field
Propagate(t, sec, m, include_aberration) ==
    LET a == Commands(sec, m)
        Drive(j, p) ==
            IF j <= Len(a) /\ PixelOf(j) = p
            THEN CScale(Poly(t, j, a[j]), Direction(t, j)) ELSE CZero
    IN  [p \in 1..NumPixels |->
            CAdd(IF include_aberration THEN Aberration(t, p) ELSE CZero,
                 CAdd(Drive(2 * p - 1, p), Drive(2 * p, p)))]

(***************************************************************************)
(* get_image, first the one-mirror definition, then the two-mirror one.    *)
(***************************************************************************)
\* a variant of the assignment that adds the argument to what the mirrors
\* hold, so that the image depends on the state the mirrors were left in
AssignActuatorsAdd(sec, m, actuators) ==
    LET Sum(a, b) ==
            [j \in 1..Len(b) |-> IF j <= Len(a) THEN DAdd(a[j], b[j]) ELSE b[j]]
        n == NumActuators
        v == actuators.value
    IN  IF ~actuators.given THEN m
        ELSE IF sec = "1dm"
        THEN [m EXCEPT !.deformable_mirror = Sum(@, v)]
        ELSE [m EXCEPT !.dm1 = Sum(@, SubSeq(v, 1, Min(n, Len(v)))),
                       !.dm2 = Sum(@, SubSeq(v, n + 1, Len(v)))]

\* a variant of the two-mirror assignment that gives both mirrors the first
\* half of the vector
AssignActuatorsFirstHalf(sec, m, actuators) ==
    IF ~actuators.given THEN m
    ELSE IF sec = "1dm" THEN [m EXCEPT !.deformable_mirror = actuators.value]
    ELSE LET n == NumActuators
             a == actuators.value
         IN  [m EXCEPT !.dm1 = SubSeq(a, 1, Min(n, Len(a))),
                       !.dm2 = SubSeq(a, 1, Min(n, Len(a)))]

\* the mirrors after get_image's assignment of its actuators argument.
\* The value recorded is the vector at the time of the assignment: whether
\* the mirror object keeps the caller's array, and so follows a later
\* in-place update of it (line 198), is decided by the library's setter
\* (SetterKeepsArray) and is applied at the update.
AssignActuators(sec, m, actuators) ==
    IF ~actuators.given THEN m
    ELSE IF sec = "1dm" THEN [m EXCEPT !.deformable_mirror = actuators.value]
    ELSE LET n == NumActuators
             a == actuators.value
         IN  [m EXCEPT !.dm1 = SubSeq(a, 1, Min(n, Len(a))),
                       !.dm2 = SubSeq(a, n + 1, Len(a))]

\* get_image(actuators, include_aberration): the mirrors it leaves and the
\* image it returns, or that the propagation raised
get_image(t, sec, m, actuators, include_aberration) ==
    LET after == AssignActuators(sec, m, actuators)
    IN  IF PropagateRaises(sec, after) \/ PropagateFails(t)
        THEN [mirrors |-> after, raised |-> TRUE,
              error |-> IF PropagateRaises(sec, after) THEN "ValueError"
                        ELSE "RuntimeError",
              electric_field |-> <<>>, intensity |-> <<>>]
        ELSE LET ef == Propagate(t, sec, after, include_aberration)
             IN  [mirrors |-> after, raised |-> FALSE, error |-> "none",
                  electric_field |-> ef, intensity |-> Intensity(ef)]


\* the train's linear operator on the dark-zone samples: column j is the
\* stacked real and imaginary parts of d field / d actuator j at zero
TrueJacobian(t, mask, num_modes) ==
    LET Unit(j) ==
            [p \in 1..NumPixels |->
                IF PixelOf(j) = p
                THEN CScale(DInt(GainOf(j)), Direction(t, j)) ELSE CZero]
    IN  Transpose([j \in 1..num_modes |->
                      StackRealImag(MaskIndex(Unit(j), mask))])

(***************************************************************************)
(* get_jacobian_matrix: the pieces of its body.                            *)
(***************************************************************************)
\* np.linspace(lo, hi, 2)
Linspace2(lo, hi) == <<lo, hi>>

\* np.var(amps): the mean squared deviation from the mean
Var(amps) ==
    LET n    == DInt(Len(amps))
        mean == DDiv(DSum(amps), n)
        dev  == [k \in 1..Len(amps) |-> DSub(amps[k], mean)]
    IN  DDiv(DSum([k \in 1..Len(amps) |-> DMul(dev[k], dev[k])]), n)

\* response += amp * electric_field      (response starts as the scalar 0)
Accumulate(response, amp, electric_field) ==
    [p \in 1..Len(electric_field) |->
        CAdd(IF response = <<>> THEN CZero ELSE response[p],
             CScale(amp, electric_field[p]))]

\* response /= np.var(amps)
Normalise(response, amps) ==
    [p \in 1..Len(response) |-> CDivReal(response[p], Var(amps))]

\* the vector appended to responses for one mode
ResponseColumn(response, amps, mask) ==
    StackRealImag(MaskIndex(Normalise(response, amps), mask))

\* a variant that forgets the transposition
JacobianUntransposed(responses) == responses

\* jacobian = np.array(responses).T
JacobianOf(responses) == Transpose(responses)

(***************************************************************************)
(* inverse_tikhonov(jacobian, rcond): library code.  Modelled from its     *)
(* contract for matrices with mutually orthogonal columns, whose singular  *)
(* values are the column norms: a column with norm below rcond times the   *)
(* largest norm (or zero) gives a zero row, every other column c gives the *)
(* row c / |c|^2.  Another matrix stops the evaluation.                    *)
(***************************************************************************)
RcondDefault == Rcond(1, 100)

ColumnDot(m, i, j) == DSum([r \in 1..Len(m) |-> DMul(m[r][i], m[r][j])])

OrthogonalColumns(m) ==
    \A i, j \in 1..Len(m[1]) : i # j => ColumnDot(m, i, j) = DZero

inverse_tikhonov(m, rcond) ==
    LET cols   == Len(m[1])
        normsq == [j \in 1..cols |-> ColumnDot(m, j, j)]
        top    == CHOOSE x \in {normsq[j] : j \in 1..cols} :
                      \A j \in 1..cols : ~DLess(x, normsq[j])
        Cut(j) == \/ normsq[j] = DZero
                  \/ DLess(DMul(DInt(rcond.den * rcond.den), normsq[j]),
                           DMul(DInt(rcond.num * rcond.num), top))
    IN  IF OrthogonalColumns(m)
        THEN [j \in 1..cols |->
                [r \in 1..Len(m) |->
                    IF Cut(j) THEN DZero ELSE DDiv(m[r][j], normsq[j])]]
        ELSE CHOOSE q \in {} : TRUE

(***************************************************************************)
(* run_efc: the pieces of its body.                                        *)
(***************************************************************************)
\* for i in range(50)
NumIterations == 50

\* a variant without the copy: the entry is the array current_actuators
\* itself
ArrayReference(v) == [alias |-> TRUE, value |-> v]

\* current_actuators.copy(): a list entry is a snapshot, or (were the copy
\* missing) the array current_actuators itself
ArrayCopy(v) == [alias |-> FALSE, value |-> v]

\* the vector a list entry holds when current_actuators holds `current`
EntryValue(e, current) == IF e.alias THEN current ELSE e.value

\* x = np.concatenate((electric_field[dark_zone].real, ...imag))
ErrorVector(electric_field, mask) == StackRealImag(MaskIndex(electric_field, mask))

\* current_actuators -= efc_loop_gain * y raises ValueError unless y has the
\* length of current_actuators or length 1 (numpy broadcasting)
UpdateRaises(current, y) == Len(y) # Len(current) /\ Len(y) # 1

\* a variant of the update that adds the correction
UpdatePlus(current, gain, y) ==
    [j \in 1..Len(current) |->
        DAdd(current[j], DMul(gain, IF Len(y) = 1 THEN y[1] ELSE y[j]))]

\* a variant of the update whose gain depends on how many calls the session
\* has made
UpdateAmbient(current, gain, y) ==
    [j \in 1..Len(current) |->
        DSub(current[j],
             DMul(IF calls > 1 THEN DInt(1) ELSE gain,
                  IF Len(y) = 1 THEN y[1] ELSE y[j]))]

\* a variant of the update that applies the whole correction, whatever
\* the loop gain
UpdateNoGain(current, gain, y) ==
    [j \in 1..Len(current) |->
        DSub(current[j], IF Len(y) = 1 THEN y[1] ELSE y[j])]

\* current_actuators -= efc_loop_gain * y
Update(current, gain, y) ==
    [j \in 1..Len(current) |->
        DSub(current[j], DMul(gain, IF Len(y) = 1 THEN y[1] ELSE y[j]))]


(***************************************************************************)
(* The notebook session.                                                   *)
(***************************************************************************)
\* the number of get_jacobian_matrix and run_efc calls of one session
MaxCalls == 2

\* the number of top-level get_image calls of one session
MaxImages == 2

\* the boolean masks over the focal samples that select at least one
Masks ==
    {m \in [1..NumPixels -> BOOLEAN] : \E p \in 1..NumPixels : m[p]}

EpsilonChoices == {DInt(1), DInt(2)}

LoopGainChoices == {DFrac(1, 1), DInt(1)}

\* the arguments the notebook's cells pass in the current section
CurrentNumModes == IF section = "1dm" THEN NumActuators ELSE 2 * NumActuators

CurrentDarkZone == IF section = "1dm" THEN dark_zone ELSE dark_zone_twosided

\* the module-level variables the two routines read
Env == [epsilon |-> epsilon, efc_loop_gain |-> efc_loop_gain]

InitSession ==
    /\ section = "1dm"
    /\ dark_zone \in Masks
    /\ dark_zone_twosided = NoMatrix
    /\ epsilon = DInt(1)
    /\ efc_loop_gain = DFrac(1, 1)
    /\ mirrors = [deformable_mirror |-> Zeros(NumActuators),
                  dm1 |-> <<>>, dm2 |-> <<>>]
    /\ jacobian = NoMatrix
    /\ pc = "idle"
    /\ gj = NoCall
    /\ efc = NoCall
    /\ returned = NoCall
    /\ returned_prev = NoCall
    /\ raised = NoError
    /\ images_seen = <<>>
    /\ calls = 0

Init == train \in LinearTrains /\ InitSession

InitProbe == train \in Trains /\ InitSession

\* the sessions on linear trains, under either behaviour of the mirrors'
\* setter
InitReplay ==
    /\ train \in {[t EXCEPT !.aliased = b] : t \in LinearTrains, b \in BOOLEAN}
    /\ InitSession

(***************************************************************************)
(* The parameter cell: iwa, owa, offset, the focal grid and the dark zone. *)
(* Focal coordinates are integers in units of 1 / (2 q) lambda/D, half a   *)
(* sample of make_focal_grid(q, ...): the samples of a grid with an even   *)
(* number of samples across lie at odd coordinates.                        *)
(***************************************************************************)
\* iwa, owa and offset, in units of spatial_resolution (lambda/D)
iwa == 2

owa == 12

offset == 1

\* make_focal_grid(2, 16, ...): samples per lambda/D
q == 2

\* circular_aperture(diameter)(grid) at one sample: inside or on the circle
CircularAperture(diameter, pt) ==
    4 * (pt.x * pt.x + pt.y * pt.y) <= diameter * diameter

\* dark_zone = circular_aperture(2 * owa) - circular_aperture(2 * iwa),
\* times focal_grid.x > offset, as booleans
DarkZoneOf(grid) ==
    [p \in 1..Len(grid) |->
        /\ CircularAperture(2 * (2 * q * owa), grid[p])
        /\ ~CircularAperture(2 * (2 * q * iwa), grid[p])
        /\ grid[p].x > 2 * q * offset]

\* samples of the focal grid: near the centre, between 2 and 3 lambda/D,
\* well inside the ring, left of the offset, on the far side, just inside
\* and just outside 12 lambda/D
FocalSamples ==
    {[x |-> 5, y |-> 1], [x |-> 9, y |-> 3], [x |-> 13, y |-> 1],
     [x |-> 3, y |-> 13], [x |-> -13, y |-> 1], [x |-> 45, y |-> 9],
     [x |-> 47, y |-> 11]}

\* the grids of NumPixels distinct samples with a sample in the dark zone
FocalGrids ==
    {g \in [1..NumPixels -> FocalSamples] :
        /\ \A a, b \in 1..NumPixels : a # b => g[a] # g[b]
        /\ DarkZoneOf(g) \in Masks}

\* the session after the parameter cell, the focal grid being part of the
\* optical train
InitGeometry ==
    /\ \E t \in Trains, g \in FocalGrids :
           /\ train = [mix |-> t.mix, cubic |-> t.cubic, broken |-> t.broken,
                       aliased |-> t.aliased, focal_grid |-> g]
           /\ dark_zone = DarkZoneOf(g)
    /\ section = "1dm"
    /\ dark_zone_twosided = NoMatrix
    /\ epsilon = DInt(1)
    /\ efc_loop_gain = DFrac(1, 1)
    /\ mirrors = [deformable_mirror |-> Zeros(NumActuators),
                  dm1 |-> <<>>, dm2 |-> <<>>]
    /\ jacobian = NoMatrix
    /\ pc = "idle"
    /\ gj = NoCall
    /\ efc = NoCall
    /\ returned = NoCall
    /\ returned_prev = NoCall
    /\ raised = NoError
    /\ images_seen = <<>>
    /\ calls = 0

\* the parameter cell is run again, with another focal grid: epsilon and
\* efc_loop_gain are reset and the dark zone is made anew
CreateGridsAndDarkZone ==
    /\ pc = "idle"
    /\ \E g \in FocalGrids \ {train.focal_grid} :
           /\ train' = [train EXCEPT !.focal_grid = g]
           /\ dark_zone' = DarkZoneOf(g)
    /\ epsilon' = DInt(1)
    /\ efc_loop_gain' = DFrac(1, 1)
    /\ UNCHANGED <<section, dark_zone_twosided, mirrors, jacobian, pc, gj,
                   efc, returned, returned_prev, raised, images_seen, calls>>

\* a cell reassigns epsilon
SetEpsilon ==
    /\ pc = "idle"
    /\ epsilon' \in EpsilonChoices \ {epsilon}
    /\ UNCHANGED <<train, section, dark_zone, dark_zone_twosided,
                   efc_loop_gain, mirrors, jacobian, pc, gj, efc, returned,
                   returned_prev, raised, images_seen, calls>>

\* a cell reassigns efc_loop_gain
SetLoopGain ==
    /\ pc = "idle"
    /\ efc_loop_gain' \in LoopGainChoices \ {efc_loop_gain}
    /\ UNCHANGED <<train, section, dark_zone, dark_zone_twosided, epsilon,
                   mirrors, jacobian, pc, gj, efc, returned, returned_prev,
                   raised, images_seen, calls>>

\* the cells that create dm1, dm2 and dark_zone_twosided and redefine
\* get_image for two mirrors
AddSecondMirror ==
    /\ pc = "idle"
    /\ section = "1dm"
    /\ section' = "2dm"
    /\ dark_zone_twosided' \in
           {m \in Masks : \A p \in 1..NumPixels : dark_zone[p] => m[p]}
    /\ mirrors' = [mirrors EXCEPT !.dm1 = Zeros(NumActuators),
                                  !.dm2 = Zeros(NumActuators)]
    /\ UNCHANGED <<train, dark_zone, epsilon, efc_loop_gain, jacobian, pc, gj,
                   efc, returned, returned_prev, raised, images_seen, calls>>

\* the train's physical parameters become invalid (at any moment, also
\* while a call runs): from now on every evaluation fails
ForwardModelBreaks ==
    /\ ~train.broken
    /\ train' = [train EXCEPT !.broken = TRUE]
    /\ UNCHANGED <<section, dark_zone, dark_zone_twosided, epsilon,
                   efc_loop_gain, mirrors, jacobian, pc, gj, efc, returned,
                   returned_prev, raised, images_seen, calls>>

\* an exception leaves the running call
Raise(error, line, iteration, evaluations) ==
    /\ raised' = [error |-> error, line |-> line, iteration |-> iteration,
                  evaluations |-> evaluations]
    /\ pc' = "idle"
    /\ gj' = NoCall
    /\ efc' = NoCall

\* a top-level get_image call
CallGetImage ==
    /\ pc = "idle"
    /\ Len(images_seen) < MaxImages
    /\ \E a \in {NoActuators, Given(EyeRow(CurrentNumModes, 1))},
          flag \in BOOLEAN :
          LET out == get_image(train, section, mirrors, a, flag)
          IN  /\ mirrors' = out.mirrors
              /\ images_seen' = Append(images_seen,
                     [actuators |-> a, include_aberration |-> flag,
                      before |-> Commands(section, mirrors),
                      electric_field |-> out.electric_field])
    /\ raised' = NoError
    /\ UNCHANGED <<train, section, dark_zone, dark_zone_twosided, epsilon,
                   efc_loop_gain, jacobian, pc, gj, efc, returned,
                   returned_prev, calls>>

(***************************************************************************)
(* get_jacobian_matrix(get_image, dark_zone, num_modes)                    *)
(***************************************************************************)
StartGetJacobianMatrix(args) ==
    /\ pc = "idle"
    /\ calls < MaxCalls
    /\ gj' = [args |-> args, env |-> Env, responses |-> <<>>,
              amps |-> Linspace2(DNeg(epsilon), epsilon),
              i |-> 1, k |-> 1, response |-> <<>>, probes |-> <<>>,
              evaluations |-> 0]
    /\ pc' = IF args.num_modes = 0 THEN "gj_return" ELSE "gj_probe"
    /\ calls' = calls + 1
    /\ raised' = NoError
    /\ UNCHANGED <<train, section, dark_zone, dark_zone_twosided, epsilon,
                   efc_loop_gain, mirrors, jacobian, efc, returned,
                   returned_prev, images_seen>>

\* the cell  jacobian = get_jacobian_matrix(get_image, dark_zone, n)
CallGetJacobianMatrix ==
    /\ returned.fn # "get_jacobian_matrix"
    /\ StartGetJacobianMatrix([get_image |-> section,
                               dark_zone |-> CurrentDarkZone,
                               num_modes |-> CurrentNumModes])

\* a variant of the probe that leaves the static aberration in
GjProbeWithAberration ==
    /\ pc = "gj_probe"
    /\ LET amp == gj.amps[gj.k]
           mode == EyeRow(gj.args.num_modes, gj.i)
           out == get_image(train, gj.args.get_image, mirrors,
                            Given(VecScale(amp, mode)), TRUE)
       IN  /\ mirrors' = out.mirrors
           /\ IF out.raised
              THEN Raise(out.error, 148, gj.i - 1, gj.evaluations + 1)
              ELSE /\ gj' = [gj EXCEPT
                        !.response = Accumulate(@, amp, out.electric_field),
                        !.probes = (IF gj.k = 1 THEN <<>> ELSE @)
                                       \o <<out.electric_field>>,
                        !.k = @ + 1,
                        !.evaluations = @ + 1]
                   /\ pc' = IF gj.k = Len(gj.amps) THEN "gj_append"
                            ELSE "gj_probe"
                   /\ UNCHANGED <<efc, raised>>
    /\ UNCHANGED <<train, section, dark_zone, dark_zone_twosided, epsilon,
                   efc_loop_gain, jacobian, returned, returned_prev,
                   images_seen, calls>>

\* one pass of the inner loop: a probe and its accumulation
GjProbe ==
    /\ pc = "gj_probe"
    /\ LET amp == gj.amps[gj.k]
           mode == EyeRow(gj.args.num_modes, gj.i)
           out == get_image(train, gj.args.get_image, mirrors,
                            Given(VecScale(amp, mode)), FALSE)
       IN  /\ mirrors' = out.mirrors
           /\ IF out.raised
              THEN Raise(out.error, 148, gj.i - 1, gj.evaluations + 1)
              ELSE /\ gj' = [gj EXCEPT
                        !.response = Accumulate(@, amp, out.electric_field),
                        !.probes = (IF gj.k = 1 THEN <<>> ELSE @)
                                       \o <<out.electric_field>>,
                        !.k = @ + 1,
                        !.evaluations = @ + 1]
                   /\ pc' = IF gj.k = Len(gj.amps) THEN "gj_append"
                            ELSE "gj_probe"
                   /\ UNCHANGED <<efc, raised>>
    /\ UNCHANGED <<train, section, dark_zone, dark_zone_twosided, epsilon,
                   efc_loop_gain, jacobian, returned, returned_prev,
                   images_seen, calls>>

\* the end of the outer loop's body: normalise, mask, stack, append
GjAppend ==
    /\ pc = "gj_append"
    /\ IF MaskIndexRaises(gj.response, gj.args.dark_zone)
       THEN Raise("IndexError", 151, gj.i - 1, gj.evaluations)
       ELSE /\ gj' = [gj EXCEPT
                 !.responses = Append(@, ResponseColumn(gj.response, gj.amps,
                                                       gj.args.dark_zone)),
                 !.i = @ + 1,
                 !.k = 1,
                 !.response = <<>>]
            /\ pc' = IF gj.i = gj.args.num_modes THEN "gj_return"
                     ELSE "gj_probe"
            /\ UNCHANGED <<efc, raised>>
    /\ UNCHANGED <<train, section, dark_zone, dark_zone_twosided, epsilon,
                   efc_loop_gain, mirrors, jacobian, returned, returned_prev,
                   images_seen, calls>>

\* return jacobian, and the cell's assignment of it
GjReturn ==
    /\ pc = "gj_return"
    /\ jacobian' = JacobianOf(gj.responses)
    /\ returned' = [fn |-> "get_jacobian_matrix", args |-> gj.args,
                    env |-> gj.env, value |-> jacobian']
    /\ returned_prev' = returned
    /\ pc' = "idle"
    /\ gj' = NoCall
    /\ UNCHANGED <<train, section, dark_zone, dark_zone_twosided, epsilon,
                   efc_loop_gain, mirrors, efc, raised, images_seen, calls>>


(***************************************************************************)
(* get_jacobian_matrix with one task per actuator axis.  Every task runs   *)
(* the body of the outer loop for its axis, with its own response, and     *)
(* puts its column at its axis' index; the tasks call the same get_image,  *)
(* which writes the module's deformable mirror (line 114) and then reads   *)
(* it (line 120).  With atomic evaluations a call of get_image is one      *)
(* step; otherwise its assignment and its propagation are two steps and    *)
(* other tasks may run in between.                                         *)
(***************************************************************************)
ParallelTask ==
    [k |-> 1, assigned |-> FALSE, response |-> <<>>, done |-> FALSE]

\* the tasks are started, with atomic or with free-running evaluations
CallParallelJacobian ==
    /\ pc = "idle"
    /\ calls < MaxCalls
    /\ \E atomic \in BOOLEAN :
           gj' = [args |-> [get_image |-> section,
                            dark_zone |-> CurrentDarkZone,
                            num_modes |-> CurrentNumModes],
                  env |-> Env,
                  amps |-> Linspace2(DNeg(epsilon), epsilon),
                  atomic |-> atomic,
                  tasks |-> [i \in 1..CurrentNumModes |-> ParallelTask],
                  columns |-> [i \in 1..CurrentNumModes |-> <<>>],
                  evaluations |-> 0]
    /\ pc' = "par"
    /\ calls' = calls + 1
    /\ raised' = NoError
    /\ UNCHANGED <<train, section, dark_zone, dark_zone_twosided, epsilon,
                   efc_loop_gain, mirrors, jacobian, efc, returned,
                   returned_prev, images_seen>>

\* a task's next probe, as one step: get_image(mode * amp, False) and the
\* accumulation of line 148
ParEvaluate ==
    /\ pc = "par"
    /\ gj.atomic
    /\ \E i \in 1..gj.args.num_modes :
           /\ gj.tasks[i].k <= Len(gj.amps)
           /\ LET amp == gj.amps[gj.tasks[i].k]
                  mode == EyeRow(gj.args.num_modes, i)
                  out == get_image(train, gj.args.get_image, mirrors,
                                   Given(VecScale(amp, mode)), FALSE)
              IN  /\ mirrors' = out.mirrors
                  /\ IF out.raised
                     THEN Raise(out.error, 148, i - 1, gj.evaluations + 1)
                     ELSE /\ gj' = [gj EXCEPT
                               !.tasks[i].response =
                                   Accumulate(@, amp, out.electric_field),
                               !.tasks[i].k = @ + 1,
                               !.evaluations = @ + 1]
                          /\ UNCHANGED <<pc, efc, raised>>
    /\ UNCHANGED <<train, section, dark_zone, dark_zone_twosided, epsilon,
                   efc_loop_gain, jacobian, returned, returned_prev,
                   images_seen, calls>>

\* the first half of a task's get_image: deformable_mirror.actuators = ...
ParAssign ==
    /\ pc = "par"
    /\ ~gj.atomic
    /\ \E i \in 1..gj.args.num_modes :
           /\ gj.tasks[i].k <= Len(gj.amps)
           /\ ~gj.tasks[i].assigned
           /\ mirrors' =
                  AssignActuators(gj.args.get_image, mirrors,
                                  Given(VecScale(gj.amps[gj.tasks[i].k],
                                                 EyeRow(gj.args.num_modes, i))))
           /\ gj' = [gj EXCEPT !.tasks[i].assigned = TRUE]
    /\ UNCHANGED <<train, section, dark_zone, dark_zone_twosided, epsilon,
                   efc_loop_gain, jacobian, pc, efc, returned, returned_prev,
                   raised, images_seen, calls>>

\* the second half: the propagation through the mirror as it is now, and
\* the accumulation of line 148
ParPropagate ==
    /\ pc = "par"
    /\ ~gj.atomic
    /\ \E i \in 1..gj.args.num_modes :
           /\ gj.tasks[i].assigned
           /\ LET out == get_image(train, gj.args.get_image, mirrors,
                                   NoActuators, FALSE)
              IN  IF out.raised
                  THEN Raise(out.error, 148, i - 1, gj.evaluations + 1)
                  ELSE /\ gj' = [gj EXCEPT
                            !.tasks[i].response =
                                Accumulate(@, gj.amps[gj.tasks[i].k],
                                           out.electric_field),
                            !.tasks[i].k = @ + 1,
                            !.tasks[i].assigned = FALSE,
                            !.evaluations = @ + 1]
                       /\ UNCHANGED <<pc, efc, raised>>
    /\ UNCHANGED <<train, section, dark_zone, dark_zone_twosided, epsilon,
                   efc_loop_gain, mirrors, jacobian, returned, returned_prev,
                   images_seen, calls>>

\* a variant of the end of a task that puts its column at the next free
\* index, in order of completion
ParAppendInCompletionOrder ==
    /\ pc = "par"
    /\ \E i \in 1..gj.args.num_modes :
           /\ gj.tasks[i].k > Len(gj.amps)
           /\ ~gj.tasks[i].done
           /\ IF MaskIndexRaises(gj.tasks[i].response, gj.args.dark_zone)
              THEN Raise("IndexError", 151, i - 1, gj.evaluations)
              ELSE /\ gj' = [gj EXCEPT
                        !.columns[1 + Cardinality({j \in 1..gj.args.num_modes :
                                                      gj.tasks[j].done})] =
                            ResponseColumn(gj.tasks[i].response, gj.amps,
                                           gj.args.dark_zone),
                        !.tasks[i].done = TRUE]
                   /\ UNCHANGED <<pc, efc, raised>>
    /\ UNCHANGED <<train, section, dark_zone, dark_zone_twosided, epsilon,
                   efc_loop_gain, mirrors, jacobian, returned, returned_prev,
                   images_seen, calls>>

\* the end of a task: lines 150-153 for its axis, the column put at the
\* axis' index
ParAppend ==
    /\ pc = "par"
    /\ \E i \in 1..gj.args.num_modes :
           /\ gj.tasks[i].k > Len(gj.amps)
           /\ ~gj.tasks[i].done
           /\ IF MaskIndexRaises(gj.tasks[i].response, gj.args.dark_zone)
              THEN Raise("IndexError", 151, i - 1, gj.evaluations)
              ELSE /\ gj' = [gj EXCEPT
                        !.columns[i] =
                            ResponseColumn(gj.tasks[i].response, gj.amps,
                                           gj.args.dark_zone),
                        !.tasks[i].done = TRUE]
                   /\ UNCHANGED <<pc, efc, raised>>
    /\ UNCHANGED <<train, section, dark_zone, dark_zone_twosided, epsilon,
                   efc_loop_gain, mirrors, jacobian, returned, returned_prev,
                   images_seen, calls>>

\* all tasks have ended: jacobian = np.array(responses).T is returned
ParReturn ==
    /\ pc = "par"
    /\ \A i \in 1..gj.args.num_modes : gj.tasks[i].done
    /\ jacobian' = JacobianOf(gj.columns)
    /\ returned' = [fn |-> "get_jacobian_matrix", args |-> gj.args,
                    env |-> gj.env, value |-> jacobian',
                    atomic |-> gj.atomic]
    /\ returned_prev' = returned
    /\ pc' = "idle"
    /\ gj' = NoCall
    /\ UNCHANGED <<train, section, dark_zone, dark_zone_twosided, epsilon,
                   efc_loop_gain, mirrors, efc, raised, images_seen, calls>>


(***************************************************************************)
(* run_efc(get_image, dark_zone, num_modes, jacobian, rcond=1e-2)          *)
(***************************************************************************)
\* the rcond of a call: the default when the caller passes none
RcondOf(args) == IF args.rcond.given THEN args.rcond ELSE RcondDefault

\* a variant of the entry of run_efc that validates its arguments and
\* rejects malformed ones before the loop
StartRunEfcValidating(args) ==
    /\ pc = "idle"
    /\ calls < MaxCalls
    /\ calls' = calls + 1
    /\ IF \/ Len(args.dark_zone) # NumPixels
          \/ args.num_modes # Len(args.jacobian[1])
          \/ args.num_modes # Len(Commands(args.get_image, mirrors))
       THEN Raise("ValueError", 175, 0, 0)
       ELSE /\ efc' = [args |-> args, env |-> Env,
                       efc_matrix |->
                           inverse_tikhonov(args.jacobian, RcondOf(args)),
                       current_actuators |-> Zeros(args.num_modes),
                       actuators |-> <<>>, electric_fields |-> <<>>,
                       images |-> <<>>, i |-> 0, img |-> NoImage,
                       evaluations |-> 0]
            /\ pc' = "efc_eval"
            /\ raised' = NoError
            /\ UNCHANGED gj
    /\ UNCHANGED <<train, section, dark_zone, dark_zone_twosided, epsilon,
                   efc_loop_gain, mirrors, jacobian, returned, returned_prev,
                   images_seen>>

StartRunEfc(args) ==
    /\ pc = "idle"
    /\ calls < MaxCalls
    /\ efc' = [args |-> args, env |-> Env,
               efc_matrix |-> inverse_tikhonov(args.jacobian, RcondOf(args)),
               current_actuators |-> Zeros(args.num_modes),
               actuators |-> <<>>, electric_fields |-> <<>>, images |-> <<>>,
               i |-> 0, img |-> NoImage, evaluations |-> 0]
    /\ pc' = "efc_eval"
    /\ calls' = calls + 1
    /\ raised' = NoError
    /\ UNCHANGED <<train, section, dark_zone, dark_zone_twosided, epsilon,
                   efc_loop_gain, mirrors, jacobian, gj, returned,
                   returned_prev, images_seen>>

\* the cell  actuators, electric_fields, images = run_efc(get_image, ...).
\* The notebook passes the stored jacobian and no rcond; a synthetic caller
\* passes the train's own operator and rcond = 0.  Either may pass a mask
\* one sample too long or ask for one mode too many.
CallRunEfc ==
    /\ returned.fn # "run_efc"
    /\ \E dz \in {CurrentDarkZone, CurrentDarkZone \o <<TRUE>>},
          n \in {CurrentNumModes, CurrentNumModes + 1},
          jr \in {<<jacobian, RcondOmitted>> : x \in {jacobian} \ {NoMatrix}}
                    \cup {<<TrueJacobian(train, CurrentDarkZone,
                                         CurrentNumModes), Rcond(0, 1)>>} :
          StartRunEfc([get_image |-> section, dark_zone |-> dz,
                       num_modes |-> n, jacobian |-> jr[1], rcond |-> jr[2]])

\* a variant of the evaluation that catches a failure of get_image and goes
\* on with the next iteration
EfcEvaluateCatching ==
    /\ pc = "efc_eval"
    /\ efc.i < NumIterations
    /\ LET out == get_image(train, efc.args.get_image, mirrors,
                            Given(efc.current_actuators), TRUE)
       IN  /\ mirrors' = out.mirrors
           /\ IF out.raised
              THEN /\ efc' = [efc EXCEPT !.i = @ + 1, !.evaluations = @ + 1]
                   /\ pc' = "efc_eval"
              ELSE /\ efc' = [efc EXCEPT
                        !.img = [electric_field |-> out.electric_field,
                                 intensity |-> out.intensity],
                        !.evaluations = @ + 1]
                   /\ pc' = "efc_log"
    /\ UNCHANGED <<train, section, dark_zone, dark_zone_twosided, epsilon,
                   efc_loop_gain, jacobian, gj, returned, returned_prev,
                   raised, images_seen, calls>>

\* img = get_image(current_actuators)
EfcEvaluate ==
    /\ pc = "efc_eval"
    /\ efc.i < NumIterations
    /\ LET out == get_image(train, efc.args.get_image, mirrors,
                            Given(efc.current_actuators), TRUE)
       IN  /\ mirrors' = out.mirrors
           /\ IF out.raised
              THEN Raise(out.error, 186, efc.i, efc.evaluations + 1)
              ELSE /\ efc' = [efc EXCEPT
                        !.img = [electric_field |-> out.electric_field,
                                 intensity |-> out.intensity],
                        !.evaluations = @ + 1]
                   /\ pc' = "efc_log"
                   /\ UNCHANGED <<gj, raised>>
    /\ UNCHANGED <<train, section, dark_zone, dark_zone_twosided, epsilon,
                   efc_loop_gain, jacobian, returned, returned_prev,
                   images_seen, calls>>

\* a variant of the logging step that also clears the actuator vector
EfcLogResetting ==
    /\ pc = "efc_log"
    /\ efc' = [efc EXCEPT
                  !.actuators = Append(@, ArrayCopy(efc.current_actuators)),
                  !.electric_fields = Append(@, efc.img.electric_field),
                  !.images = Append(@, efc.img.intensity),
                  !.current_actuators = Zeros(Len(@))]
    /\ pc' = "efc_update"
    /\ UNCHANGED <<train, section, dark_zone, dark_zone_twosided, epsilon,
                   efc_loop_gain, mirrors, jacobian, gj, returned,
                   returned_prev, raised, images_seen, calls>>

\* the three appends
EfcLog ==
    /\ pc = "efc_log"
    /\ efc' = [efc EXCEPT
                  !.actuators = Append(@, ArrayCopy(efc.current_actuators)),
                  !.electric_fields = Append(@, efc.img.electric_field),
                  !.images = Append(@, efc.img.intensity)]
    /\ pc' = "efc_update"
    /\ UNCHANGED <<train, section, dark_zone, dark_zone_twosided, epsilon,
                   efc_loop_gain, mirrors, jacobian, gj, returned,
                   returned_prev, raised, images_seen, calls>>

\* x, y and the in-place update of current_actuators
EfcUpdate ==
    /\ pc = "efc_update"
    /\ LET ef == efc.img.electric_field
           dz == efc.args.dark_zone
           x  == ErrorVector(ef, dz)
           y  == Dot(efc.efc_matrix, x)
       IN  IF MaskIndexRaises(ef, dz)
           THEN Raise("IndexError", 195, efc.i, efc.evaluations) /\ UNCHANGED mirrors
           ELSE IF DotRaises(efc.efc_matrix, x)
           THEN Raise("ValueError", 196, efc.i, efc.evaluations) /\ UNCHANGED mirrors
           ELSE IF UpdateRaises(efc.current_actuators, y)
           THEN Raise("ValueError", 198, efc.i, efc.evaluations) /\ UNCHANGED mirrors
           ELSE /\ efc' = [efc EXCEPT
                     !.current_actuators = Update(@, efc_loop_gain, y),
                     !.i = @ + 1]
                /\ mirrors' =
                       IF SetterKeepsArray(train)
                       THEN AssignActuators(efc.args.get_image, mirrors,
                                            Given(efc'.current_actuators))
                       ELSE mirrors
                /\ pc' = "efc_eval"
                /\ UNCHANGED <<gj, raised>>
    /\ UNCHANGED <<train, section, dark_zone, dark_zone_twosided, epsilon,
                   efc_loop_gain, jacobian, returned, returned_prev,
                   images_seen, calls>>

\* a variant of the return that also stops as soon as the last logged image
\* is dark on every dark-zone sample
EfcReturnConverged ==
    /\ pc = "efc_eval"
    /\ \/ efc.i >= NumIterations
       \/ /\ efc.i >= 1
          /\ \A p \in 1..Len(efc.args.dark_zone) :
                 efc.args.dark_zone[p] => efc.images[efc.i][p] = DZero
    /\ returned' =
           [fn |-> "run_efc", args |-> efc.args, env |-> efc.env,
            value |->
                [actuators |->
                     [k \in 1..Len(efc.actuators) |->
                         EntryValue(efc.actuators[k], efc.current_actuators)],
                 electric_fields |-> efc.electric_fields,
                 images |-> efc.images]]
    /\ returned_prev' = returned
    /\ pc' = "idle"
    /\ efc' = NoCall
    /\ UNCHANGED <<train, section, dark_zone, dark_zone_twosided, epsilon,
                   efc_loop_gain, mirrors, jacobian, gj, raised, images_seen,
                   calls>>

\* a variant of the return that also hands out the vector the last update
\* has left, as one more entry of actuators
EfcReturnFinalVector ==
    /\ pc = "efc_eval"
    /\ efc.i >= NumIterations
    /\ returned' =
           [fn |-> "run_efc", args |-> efc.args, env |-> efc.env,
            value |->
                [actuators |->
                     [k \in 1..(Len(efc.actuators) + 1) |->
                         IF k <= Len(efc.actuators)
                         THEN EntryValue(efc.actuators[k],
                                         efc.current_actuators)
                         ELSE efc.current_actuators],
                 electric_fields |-> efc.electric_fields,
                 images |-> efc.images]]
    /\ returned_prev' = returned
    /\ pc' = "idle"
    /\ efc' = NoCall
    /\ UNCHANGED <<train, section, dark_zone, dark_zone_twosided, epsilon,
                   efc_loop_gain, mirrors, jacobian, gj, raised, images_seen,
                   calls>>

\* the loop is exhausted: return actuators, electric_fields, images
EfcReturn ==
    /\ pc = "efc_eval"
    /\ efc.i >= NumIterations
    /\ returned' =
           [fn |-> "run_efc", args |-> efc.args, env |-> efc.env,
            value |->
                [actuators |->
                     [k \in 1..Len(efc.actuators) |->
                         EntryValue(efc.actuators[k], efc.current_actuators)],
                 electric_fields |-> efc.electric_fields,
                 images |-> efc.images]]
    /\ returned_prev' = returned
    /\ pc' = "idle"
    /\ efc' = NoCall
    /\ UNCHANGED <<train, section, dark_zone, dark_zone_twosided, epsilon,
                   efc_loop_gain, mirrors, jacobian, gj, raised, images_seen,
                   calls>>

(***************************************************************************)
(* make_animation_1dm / make_animation_2dm(actuators, electric_fields,     *)
(* images, dark_zone), called with the lists the last run_efc returned.    *)
(* Of its effects the model keeps the one on the mirrors: every frame i    *)
(* assigns actuators[i] to the mirror(s) of the section, so the loop over  *)
(* range(len(actuators)) leaves them at the last entry.                    *)
(***************************************************************************)
\* the replay of the returned history, frame by frame
MakeAnimation ==
    /\ pc = "idle"
    /\ returned.fn = "run_efc"
    /\ returned.args.get_image = section
    /\ mirrors' =
           AssignActuators(section, mirrors,
                           Given(returned.value.actuators[
                                     Len(returned.value.actuators)]))
    /\ UNCHANGED <<train, section, dark_zone, dark_zone_twosided, epsilon,
                   efc_loop_gain, jacobian, pc, gj, efc, returned,
                   returned_prev, raised, images_seen, calls>>

\* the cell of the last returned call is executed again, with the same
\* arguments
RepeatGetJacobianMatrix ==
    /\ returned.fn = "get_jacobian_matrix"
    /\ returned.args.get_image = section
    /\ StartGetJacobianMatrix(returned.args)

RepeatRunEfc ==
    /\ returned.fn = "run_efc"
    /\ returned.args.get_image = section
    /\ StartRunEfc(returned.args)

Next ==
    \/ SetLoopGain
    \/ AddSecondMirror
    \/ CallGetJacobianMatrix
    \/ GjProbe
    \/ GjAppend
    \/ GjReturn
    \/ RepeatGetJacobianMatrix
    \/ CallRunEfc
    \/ EfcEvaluate
    \/ EfcLog
    \/ EfcUpdate
    \/ EfcReturn
    \/ RepeatRunEfc

Spec == Init /\ [][Next]_vars

\* the estimation alone, on every train, under either epsilon
NextProbe ==
    \/ SetEpsilon
    \/ AddSecondMirror
    \/ CallGetJacobianMatrix
    \/ GjProbe
    \/ GjAppend
    \/ GjReturn
    \/ RepeatGetJacobianMatrix

SpecProbe == InitProbe /\ [][NextProbe]_vars

\* the estimation of the Jacobian by the loop of the notebook and by one
\* task per axis, on every train
NextParallel ==
    \/ CallGetJacobianMatrix
    \/ GjProbe
    \/ GjAppend
    \/ GjReturn
    \/ CallParallelJacobian
    \/ ParEvaluate
    \/ ParAssign
    \/ ParPropagate
    \/ ParAppend
    \/ ParReturn

SpecParallel == InitProbe /\ [][NextParallel]_vars

\* the parameter cell and the estimation that uses its dark zone
NextGeometry ==
    \/ CreateGridsAndDarkZone
    \/ CallGetJacobianMatrix
    \/ GjProbe
    \/ GjAppend
    \/ GjReturn

SpecGeometry == InitGeometry /\ [][NextGeometry]_vars

\* sessions with the replay of a history between the calls
NextReplay ==
    \/ AddSecondMirror
    \/ CallGetJacobianMatrix
    \/ GjProbe
    \/ GjAppend
    \/ GjReturn
    \/ CallRunEfc
    \/ EfcEvaluate
    \/ EfcLog
    \/ EfcUpdate
    \/ EfcReturn
    \/ RepeatRunEfc
    \/ MakeAnimation

SpecReplay == InitReplay /\ [][NextReplay]_vars

\* sessions in which the forward model may start to fail
NextFault ==
    \/ ForwardModelBreaks
    \/ SetLoopGain
    \/ CallGetJacobianMatrix
    \/ GjProbe
    \/ GjAppend
    \/ GjReturn
    \/ CallRunEfc
    \/ EfcEvaluate
    \/ EfcLog
    \/ EfcUpdate
    \/ EfcReturn

SpecFault == Init /\ [][NextFault]_vars

\* the interpreter executes the statements of a running call one after the
\* other and never suspends it: a step of run_efc that can be taken is taken
\* (weak fairness of each step).  For the two steps that compute with the
\* optical train, WF_vars(A), which is []<>~ENABLED <<A>>_vars \/
\* []<><<A>>_vars, is written out with the step's own guard for ENABLED:
\* past its guard either step is total (an IF with both branches defined).
SpecRun ==
    /\ Init
    /\ [][NextFault]_vars
    /\ WF_vars(EfcLog)
    /\ WF_vars(EfcReturn)
    /\ \/ []<>~(pc = "efc_eval" /\ efc.i < NumIterations)
       \/ []<><<EfcEvaluate>>_vars
    /\ \/ []<>~(pc = "efc_update")
       \/ []<><<EfcUpdate>>_vars

\* top-level get_image calls around the estimation, on every train
NextImage ==
    \/ AddSecondMirror
    \/ CallGetImage
    \/ CallGetJacobianMatrix
    \/ GjProbe
    \/ GjAppend
    \/ GjReturn

SpecImage == InitProbe /\ [][NextImage]_vars

(***************************************************************************)
(* The claims.                                                             *)
(***************************************************************************)
\* the dark-zone samples a mask selects
MaskSize(mask) == Cardinality({p \in 1..Len(mask) : mask[p]})

\* C1 (as stated): for every axis and every train, the response that
\* get_jacobian_matrix has computed from its two probes, once divided by
\* np.var(amps), is the centered derivative
\* (field(+epsilon e_i) - field(-epsilon e_i)) / (2 epsilon).
C1_ResponseIsCenteredDerivative ==
    pc = "gj_append" =>
        LET minus == gj.probes[1]
            plus  == gj.probes[2]
            step  == DMul(DInt(2), gj.amps[2])
        IN  Normalise(gj.response, gj.amps) =
                [p \in 1..Len(plus) |->
                    CDivReal([re |-> DSub(plus[p].re, minus[p].re),
                              im |-> DSub(plus[p].im, minus[p].im)], step)]

\* C2 (as stated): on a linear train the matrix get_jacobian_matrix returns
\* is the train's own operator on the dark-zone samples, real parts stacked
\* above imaginary parts.
C2_ReturnsTrueOperator ==
    returned.fn = "get_jacobian_matrix" =>
        returned.value = TrueJacobian(train, returned.args.dark_zone,
                                      returned.args.num_modes)

\* where a running run_efc can stand
EfcPcs == {"efc_eval", "efc_log", "efc_update"}

C5_SameArgumentsSameResult ==
    (/\ returned.fn # "none"
     /\ returned_prev.fn = returned.fn
     /\ returned_prev.args = returned.args) =>
        returned_prev.value = returned.value

\* C5 (amended): two calls with identical arguments return identical
\* results when the module-level epsilon and efc_loop_gain are the same at
\* both calls; and a call of run_efc that passes no rcond works with 1/100.
C5_SameArgumentsSameGlobalsSameResult ==
    /\ (/\ returned.fn # "none"
        /\ returned_prev.fn = returned.fn
        /\ returned_prev.args = returned.args
        /\ returned_prev.env = returned.env) =>
           returned_prev.value = returned.value
    /\ (pc \in EfcPcs /\ ~efc.args.rcond.given) =>
           efc.efc_matrix =
               inverse_tikhonov(efc.args.jacobian,
                                [given |-> TRUE, num |-> 1, den |-> 100])

\* run_efc has returned twice for the same arguments under the same globals
C5_RepeatedRun ==
    /\ returned.fn = "run_efc"
    /\ returned_prev.fn = "run_efc"
    /\ returned_prev.args = returned.args
    /\ returned_prev.env = returned.env
    /\ returned.value.actuators[2] # returned.value.actuators[1]

\* C6 (as stated): a malformed input is rejected before the first
\* evaluation of the forward model: when run_efc raises, it has evaluated
\* nothing.
C6_RejectedBeforeFirstEvaluation ==
    (raised.error # "none" /\ raised.line >= 174) => raised.evaluations = 0

\* C6 (amended): run_efc validates nothing.  A malformed input makes numpy
\* or the mirror raise in the first iteration, once the first evaluation
\* has begun: ValueError inside get_image (line 186) for a wrong actuator
\* count, IndexError at line 195 for a wrong mask, ValueError at line 196
\* or 198 for a Jacobian of the wrong shape.  No malformed input survives
\* the first iteration.
C6_FailsInFirstIteration ==
    /\ (raised.error # "none" /\ raised.line >= 174) =>
           /\ raised.iteration = 0
           /\ raised.evaluations = 1
           /\ <<raised.error, raised.line>> \in
                  {<<"ValueError", 186>>, <<"IndexError", 195>>,
                   <<"ValueError", 196>>, <<"ValueError", 198>>}
    /\ (pc \in EfcPcs /\ efc.i >= 1) =>
           /\ Len(efc.args.dark_zone) = NumPixels
           /\ efc.args.num_modes = Len(efc.args.jacobian[1])
           /\ efc.args.num_modes = Len(Commands(efc.args.get_image, mirrors))

\* a mask one sample too long has failed after the first evaluation
C6_MaskFailedAfterEvaluation ==
    /\ raised.error = "IndexError"
    /\ raised.line = 195
    /\ raised.evaluations = 1

\* C7 (as stated): two get_image calls with the same actuators argument and
\* the same flag return the same field.
C7_SameInputsSameField ==
    \A i, j \in 1..Len(images_seen) :
        (/\ images_seen[i].actuators = images_seen[j].actuators
         /\ images_seen[i].include_aberration =
                images_seen[j].include_aberration) =>
            images_seen[i].electric_field = images_seen[j].electric_field

\* C7 (amended): two calls of the same get_image that both pass an
\* actuator vector, the same one, and the same flag return the same field,
\* whatever the mirrors held before; a call that passes no actuators (the
\* default None) images whatever the mirrors hold.
C7_SameGivenActuatorsSameField ==
    /\ \A i, j \in 1..Len(images_seen) :
           (/\ images_seen[i].actuators.given
            /\ images_seen[i].actuators = images_seen[j].actuators
            /\ images_seen[i].include_aberration =
                   images_seen[j].include_aberration) =>
               images_seen[i].electric_field = images_seen[j].electric_field
    /\ \A i \in 1..Len(images_seen) :
           ~images_seen[i].actuators.given =>
               images_seen[i].electric_field =
                   Propagate(train,
                             IF Len(images_seen[i].before) = NumActuators
                             THEN "1dm" ELSE "2dm",
                             [deformable_mirror |-> images_seen[i].before,
                              dm1 |-> SubSeq(images_seen[i].before, 1,
                                             NumActuators),
                              dm2 |-> SubSeq(images_seen[i].before,
                                             NumActuators + 1,
                                             Len(images_seen[i].before))],
                             images_seen[i].include_aberration)

\* the same actuators were imaged twice, from different mirror states
C7_ImagedTwice ==
    \E i, j \in 1..Len(images_seen) :
        /\ i < j
        /\ images_seen[i].actuators.given
        /\ images_seen[i].actuators = images_seen[j].actuators
        /\ images_seen[i].include_aberration =
               images_seen[j].include_aberration
        /\ images_seen[i].before # images_seen[j].before

\* the stored Jacobian is passed to run_efc with the arguments it was
\* estimated for
EstimatedJacobianInUse ==
    /\ pc \in EfcPcs
    /\ returned.fn = "get_jacobian_matrix"
    /\ efc.args.jacobian = returned.value
    /\ efc.args.num_modes = returned.args.num_modes
    /\ efc.args.dark_zone = returned.args.dark_zone

\* C8: the Jacobian get_jacobian_matrix returns has 2 |dark zone| rows of N
\* entries; the control matrix run_efc derives from it has N rows of
\* 2 |dark zone| entries; and the correction y has N entries, the length of
\* the actuator vector.
C8_Shapes ==
    /\ returned.fn = "get_jacobian_matrix" =>
           /\ Len(returned.value) = 2 * MaskSize(returned.args.dark_zone)
           /\ \A r \in 1..Len(returned.value) :
                  Len(returned.value[r]) = returned.args.num_modes
    /\ EstimatedJacobianInUse =>
           /\ Len(efc.efc_matrix) = efc.args.num_modes
           /\ \A r \in 1..Len(efc.efc_matrix) :
                  Len(efc.efc_matrix[r]) = 2 * MaskSize(efc.args.dark_zone)
           /\ pc = "efc_update" =>
                  Len(Dot(efc.efc_matrix,
                          ErrorVector(efc.img.electric_field,
                                      efc.args.dark_zone))) =
                      Len(efc.current_actuators)

\* a correction is about to be computed from an estimated Jacobian that is
\* not square
C8_CorrectionFromEstimate ==
    /\ EstimatedJacobianInUse
    /\ pc = "efc_update"
    /\ Len(efc.efc_matrix) # Len(efc.efc_matrix[1])

\* C9: at every iteration boundary the three lists have the length of the
\* iteration counter, and the entry the iteration has just logged holds the
\* actuator vector get_image was evaluated at, the field get_image returned
\* for it, and that field's squared magnitude; in the history run_efc
\* returns every entry k does so.
C9_HistoryIndexedByIteration ==
    LET Step(sec, a, field, image) ==
            /\ field = get_image(train, sec, mirrors, Given(a),
                                 TRUE).electric_field
            /\ Len(image) = Len(field)
            /\ \A p \in 1..Len(field) :
                   image[p] = DAdd(DMul(field[p].re, field[p].re),
                                   DMul(field[p].im, field[p].im))
    IN  /\ pc = "efc_eval" =>
               /\ Len(efc.actuators) = efc.i
               /\ Len(efc.electric_fields) = efc.i
               /\ Len(efc.images) = efc.i
               /\ efc.i >= 1 =>
                      Step(efc.args.get_image,
                           EntryValue(efc.actuators[efc.i],
                                      efc.current_actuators),
                           efc.electric_fields[efc.i], efc.images[efc.i])
        /\ (pc = "idle" /\ returned.fn = "run_efc") =>
               /\ Len(returned.value.electric_fields) =
                      Len(returned.value.actuators)
               /\ Len(returned.value.images) = Len(returned.value.actuators)
               /\ \A k \in 1..Len(returned.value.actuators) :
                      Step(returned.args.get_image, returned.value.actuators[k],
                           returned.value.electric_fields[k],
                           returned.value.images[k])

\* a returned history whose first two entries differ
C9_HistoryReturned ==
    /\ returned.fn = "run_efc"
    /\ Len(returned.value.actuators) >= 2
    /\ returned.value.actuators[1] # returned.value.actuators[2]
    /\ returned.value.electric_fields[1] # returned.value.electric_fields[2]

\* run_efc runs on a linear train with the train's own operator J, a control
\* matrix that is the exact inverse of J, and loop gain 1
ExactInverseInUse ==
    /\ pc \in EfcPcs
    /\ efc_loop_gain = DInt(1)
    /\ train.cubic = 0
    /\ Len(efc.args.dark_zone) = NumPixels
    /\ LET J == TrueJacobian(train, efc.args.dark_zone, efc.args.num_modes)
           G == efc.efc_matrix
           n == efc.args.num_modes
       IN  /\ efc.args.jacobian = J
           /\ Len(J) = n
           /\ \A j \in 1..n :
                  Dot(G, [r \in 1..n |-> J[r][j]]) = EyeRow(n, j)
           /\ \A j \in 1..n :
                  Dot(J, [r \in 1..n |-> G[r][j]]) = EyeRow(n, j)

\* C10: with the exact inverse and loop gain 1, the field evaluated after
\* one iteration has a zero dark-zone error vector.
C10_OneIterationNulls ==
    (ExactInverseInUse /\ Len(efc.electric_fields) >= 2) =>
        \A k \in 1..(2 * MaskSize(efc.args.dark_zone)) :
            ErrorVector(efc.electric_fields[2], efc.args.dark_zone)[k] = DZero

\* the second field has been logged, and the first had a dark-zone error
C10_SecondFieldLogged ==
    /\ ExactInverseInUse
    /\ Len(efc.electric_fields) >= 2
    /\ \E k \in 1..(2 * MaskSize(efc.args.dark_zone)) :
           ErrorVector(efc.electric_fields[1], efc.args.dark_zone)[k] # DZero

\* run_efc runs with the Jacobian get_jacobian_matrix estimated for these
\* arguments, and its control matrix inverts that Jacobian exactly (no
\* damping, no truncation)
EstimateInvertedExactly ==
    /\ EstimatedJacobianInUse
    /\ LET E == efc.args.jacobian
           G == efc.efc_matrix
           n == efc.args.num_modes
       IN  /\ Len(E) = n
           /\ \A j \in 1..n :
                  Dot(G, [r \in 1..n |-> E[r][j]]) = EyeRow(n, j)
           /\ \A j \in 1..n :
                  Dot(E, [r \in 1..n |-> G[r][j]]) = EyeRow(n, j)

\* C11 (as stated): with the estimated Jacobian inverted without damping,
\* the dark-zone error vector after an iteration is (1 - loop gain) times
\* the error vector before it: half of it for the loop gain 0.5.
C11_ErrorScaledByOneMinusGain ==
    (EstimateInvertedExactly /\ Len(efc.electric_fields) >= 2) =>
        LET before == ErrorVector(efc.electric_fields[1], efc.args.dark_zone)
            after  == ErrorVector(efc.electric_fields[2], efc.args.dark_zone)
        IN  \A k \in 1..Len(before) :
                after[k] = DMul(DSub(DInt(1), efc_loop_gain), before[k])

\* the summed intensity of an image over the dark-zone samples: the mean
\* intensity times the number of samples, which a run does not change
DarkZoneSum(image, mask) == DSum(MaskIndex(image, mask))

\* the loop gain lies strictly between 0 and 1
GainInsideUnitInterval ==
    DLess(DZero, efc_loop_gain) /\ DLess(efc_loop_gain, DInt(1))

\* C12: on a linear train, with a loop gain strictly between 0 and 1, the
\* mean dark-zone intensity an iteration logs is never above the one the
\* iteration before it logged (compared as sums over the same samples).
C12_MeanIntensityNeverIncreases ==
    (/\ pc = "efc_update"
     /\ train.cubic = 0
     /\ GainInsideUnitInterval
     /\ Len(efc.images) >= 2) =>
        LET n == Len(efc.images)
        IN  ~DLess(DarkZoneSum(efc.images[n - 1], efc.args.dark_zone),
                   DarkZoneSum(efc.images[n], efc.args.dark_zone))

\* an iteration after the fifth has logged a strictly darker dark zone
C12_DarkerLate ==
    /\ pc = "efc_update"
    /\ GainInsideUnitInterval
    /\ Len(efc.images) >= 6
    /\ DLess(DarkZoneSum(efc.images[Len(efc.images)], efc.args.dark_zone),
             DarkZoneSum(efc.images[Len(efc.images) - 1], efc.args.dark_zone))

\* C13: when get_image raises inside an iteration of run_efc or inside a
\* probe of get_jacobian_matrix, the very step ends the call with that
\* exception: the error is the one get_image raised, nothing is returned,
\* the evaluation was the only one of its iteration (no retry), and no
\* later iteration or probe follows.
C13_FailurePropagates ==
    [][/\ (/\ pc = "efc_eval"
           /\ efc.i < NumIterations
           /\ train' = train
           /\ get_image(train, efc.args.get_image, mirrors,
                        Given(efc.current_actuators), TRUE).raised) =>
              /\ pc' = "idle"
              /\ efc' = NoCall
              /\ returned' = returned
              /\ raised' =
                     [error |-> get_image(train, efc.args.get_image, mirrors,
                                          Given(efc.current_actuators),
                                          TRUE).error,
                      line |-> 186, iteration |-> efc.i,
                      evaluations |-> efc.i + 1]
       /\ (/\ pc = "gj_probe"
           /\ train' = train
           /\ get_image(train, gj.args.get_image, mirrors,
                        Given(VecScale(gj.amps[gj.k],
                                       EyeRow(gj.args.num_modes, gj.i))),
                        FALSE).raised) =>
              /\ pc' = "idle"
              /\ gj' = NoCall
              /\ returned' = returned
              /\ jacobian' = jacobian
              /\ raised'.error =
                     get_image(train, gj.args.get_image, mirrors,
                               Given(VecScale(gj.amps[gj.k],
                                              EyeRow(gj.args.num_modes, gj.i))),
                               FALSE).error
              /\ raised'.line = 148
              /\ raised'.evaluations = 2 * (gj.i - 1) + gj.k]_vars

\* the forward model has failed in a late iteration of run_efc, and the
\* failure is what the caller got
C13_FailedMidLoop ==
    /\ raised.error = "RuntimeError"
    /\ raised.line = 186
    /\ raised.iteration >= 2
    /\ pc = "idle"

\* C14 (as stated): a run that has started ends in a terminal state, that
\* is, by returning its result (converged or out of iterations).
C14_EveryRunReachesTerminalState ==
    [][(pc \in EfcPcs /\ pc' \notin EfcPcs) =>
           /\ returned'.fn = "run_efc"
           /\ raised' = raised]_vars

\* C14 (amended): a run starts from idle at iteration 0; it leaves the
\* running state only to idle, either by returning after all NumIterations
\* iterations (there is no earlier, converged, return) or by an exception
\* that returns nothing; and every run that has started does end.
C14_RunEndsAtLimitOrByException ==
    /\ [][/\ (pc \notin EfcPcs /\ pc' \in EfcPcs) =>
                 /\ pc = "idle"
                 /\ pc' = "efc_eval"
                 /\ efc'.i = 0
          /\ (pc \in EfcPcs /\ pc' \notin EfcPcs) =>
                 /\ pc' = "idle"
                 /\ efc' = NoCall
                 /\ IF pc = "efc_eval" /\ efc.i = NumIterations
                    THEN /\ returned'.fn = "run_efc"
                         /\ Len(returned'.value.images) = NumIterations
                         /\ raised' = raised
                    ELSE /\ returned' = returned
                         /\ raised'.error # "none"
                         /\ raised'.line \in 174..200
                         /\ raised'.iteration = efc.i]_vars
    /\ (pc \in EfcPcs) ~> (pc = "idle")

\* a run has gone through all iterations but the last, and ended in the
\* last one by an exception, with nothing returned
C14_EndedByExceptionInLastIteration ==
    /\ pc = "idle"
    /\ raised.error = "RuntimeError"
    /\ raised.line = 186
    /\ raised.iteration = NumIterations - 1
    /\ returned.fn # "run_efc"

\* C15: a run starts with the all-zero actuator vector, and every update of
\* an iteration gives  new = old - efc_loop_gain * (efc_matrix . x)  where x
\* is the real parts followed by the imaginary parts of the dark-zone samples
\* of the field of this iteration, which is the field of the train, with its
\* aberration, at the old actuator vector.
C15_UpdateFormula ==
    [][/\ (pc = "idle" /\ pc' = "efc_eval") =>
              /\ efc'.i = 0
              /\ Len(efc'.current_actuators) = efc'.args.num_modes
              /\ \A j \in 1..Len(efc'.current_actuators) :
                     efc'.current_actuators[j] = DZero
       /\ (pc = "efc_update" /\ pc' = "efc_eval") =>
              LET old == efc.current_actuators
                  new == efc'.current_actuators
                  field == efc.electric_fields[efc.i + 1]
                  idx == Selected(efc.args.dark_zone, 1)
                  m == Len(idx)
                  x == [k \in 1..(2 * m) |->
                           IF k <= m THEN field[idx[k]].re
                           ELSE field[idx[k - m]].im]
                  y == Dot(efc.efc_matrix, x)
              IN  /\ efc'.i = efc.i + 1
                  /\ Len(efc.electric_fields) = efc.i + 1
                  /\ field = get_image(train, efc.args.get_image, mirrors,
                                       Given(old), TRUE).electric_field
                  /\ Len(new) = Len(old)
                  /\ \A j \in 1..Len(old) :
                         new[j] = DSub(old[j],
                                       DMul(efc_loop_gain,
                                            IF Len(y) = 1 THEN y[1]
                                            ELSE y[j]))]_vars

\* several updates have been made with the notebook's gain 0.5, and the
\* last one has moved the vector
C15_UpdatedSeveralTimes ==
    /\ pc = "efc_eval"
    /\ efc.i >= 3
    /\ efc_loop_gain = DFrac(1, 1)
    /\ efc.current_actuators # efc.actuators[efc.i].value
    /\ efc.current_actuators # Zeros(efc.args.num_modes)

\* C16: every successful probe of get_jacobian_matrix is one evaluation of
\* the train without its static aberration, and every successful evaluation
\* of the control loop is one evaluation of the train with it; the field of
\* the other setting is a different one, and neither routine produces it.
C16_AberrationSetting ==
    [][/\ (pc = "gj_probe" /\ pc' \in {"gj_probe", "gj_append"}) =>
              LET sec == gj.args.get_image
                  seen == gj'.probes[Len(gj'.probes)]
              IN  /\ gj'.evaluations = gj.evaluations + 1
                  /\ seen = Propagate(train, sec, mirrors', FALSE)
                  /\ seen # Propagate(train, sec, mirrors', TRUE)
       /\ (pc = "efc_eval" /\ pc' = "efc_log") =>
              LET sec == efc.args.get_image
                  seen == efc'.img.electric_field
              IN  /\ efc'.evaluations = efc.evaluations + 1
                  /\ seen = Propagate(train, sec, mirrors', TRUE)
                  /\ seen # Propagate(train, sec, mirrors', FALSE)]_vars

\* the session has estimated the Jacobian and the control loop has
\* evaluated the train in a later iteration
C16_ProbedThenEvaluated ==
    /\ pc = "efc_log"
    /\ returned.fn = "get_jacobian_matrix"
    /\ efc.i >= 1

\* C18: while a call of run_efc runs, its Jacobian, its dark-zone mask and
\* the control matrix computed at entry stay what they are, and so do the
\* session's jacobian and dark_zone; the control matrix is the inverse
\* computed from the Jacobian before the first iteration; and only the
\* update step changes current_actuators: evaluation and logging do not.
C18_OnlyUpdateChangesActuators ==
    [][/\ (pc = "idle" /\ pc' \in EfcPcs) =>
              efc'.efc_matrix =
                  inverse_tikhonov(efc'.args.jacobian, RcondOf(efc'.args))
       /\ (pc \in EfcPcs /\ pc' \in EfcPcs) =>
              /\ efc'.args = efc.args
              /\ efc'.efc_matrix = efc.efc_matrix
              /\ jacobian' = jacobian
              /\ dark_zone' = dark_zone
              /\ dark_zone_twosided' = dark_zone_twosided
              /\ (pc # "efc_update") =>
                     efc'.current_actuators = efc.current_actuators]_vars

\* a run is past several iterations, evaluations and logs included, and its
\* actuator vector has moved away from zero
C18_RunWellUnderWay ==
    /\ pc = "efc_update"
    /\ efc.i >= 2
    /\ efc.current_actuators # Zeros(efc.args.num_modes)
    /\ Len(efc.actuators) = efc.i + 1

\* C19: in the two-mirror section every evaluation that passes a vector of
\* 2 * NumActuators components, be it a probe of get_jacobian_matrix or an
\* evaluation of run_efc, leaves the first mirror with components
\* 1..NumActuators and the second with the others, in order: both mirrors
\* are wholly reassigned and every component is on exactly one mirror.
C19_SplitAtNumActuators ==
    [][/\ (/\ pc = "efc_eval"
           /\ efc.i < NumIterations
           /\ efc.args.get_image = "2dm"
           /\ Len(efc.current_actuators) = 2 * NumActuators) =>
              /\ Len(mirrors'.dm1) = NumActuators
              /\ Len(mirrors'.dm2) = NumActuators
              /\ \A j \in 1..NumActuators :
                     /\ mirrors'.dm1[j] = efc.current_actuators[j]
                     /\ mirrors'.dm2[j] =
                            efc.current_actuators[NumActuators + j]
       /\ (/\ pc = "gj_probe"
           /\ gj.args.get_image = "2dm"
           /\ gj.args.num_modes = 2 * NumActuators) =>
              /\ Len(mirrors'.dm1) = NumActuators
              /\ Len(mirrors'.dm2) = NumActuators
              /\ \A j \in 1..NumActuators :
                     /\ mirrors'.dm1[j] =
                            IF j = gj.i THEN gj.amps[gj.k] ELSE DZero
                     /\ mirrors'.dm2[j] =
                            IF NumActuators + j = gj.i THEN gj.amps[gj.k]
                            ELSE DZero]_vars

\* the control loop has driven the two mirrors to different, non-zero
\* commands
C19_BothMirrorsDriven ==
    /\ pc = "efc_log"
    /\ efc.args.get_image = "2dm"
    /\ Len(efc.current_actuators) = 2 * NumActuators
    /\ mirrors.dm1 # Zeros(NumActuators)
    /\ mirrors.dm2 # Zeros(NumActuators)
    /\ mirrors.dm1 # mirrors.dm2

\* the Jacobian of the one-mirror train: column i from the two fields of
\* the mirror at -epsilon and +epsilon on axis i alone
AxisField(amp, i) ==
    Propagate(train, "1dm",
              [mirrors EXCEPT
                  !.deformable_mirror =
                      [j \in 1..NumActuators |->
                          IF j = i THEN amp ELSE DZero]],
              FALSE)

AxisColumn(i, mask) ==
    LET lo == AxisField(DNeg(epsilon), i)
        hi == AxisField(epsilon, i)
        response == [p \in 1..NumPixels |->
                        CDivReal(CAdd(CScale(DNeg(epsilon), lo[p]),
                                      CScale(epsilon, hi[p])),
                                 DMul(epsilon, epsilon))]
    IN  StackRealImag(MaskIndex(response, mask))

AxisJacobian(mask) ==
    [r \in 1..(2 * MaskSize(mask)) |->
        [i \in 1..NumActuators |-> AxisColumn(i, mask)[r]]]

C20_DarkZoneFromThreeToTwelve ==
    /\ Len(dark_zone) = Len(train.focal_grid)
    /\ \A p \in 1..Len(dark_zone) :
           LET pt == train.focal_grid[p]
               r2 == pt.x * pt.x + pt.y * pt.y
           IN  dark_zone[p] <=>
                   /\ (2 * q * 3) * (2 * q * 3) <= r2
                   /\ r2 <= (2 * q * 12) * (2 * q * 12)
                   /\ pt.x > 2 * q * 1

\* C21: the entry a logging step appends holds the vector just evaluated;
\* the in-place update of current_actuators changes no entry appended
\* before it; and the entries returned are the entries as they were
\* appended.
C21_HistoryEntriesAreSnapshots ==
    [][/\ (pc = "efc_log" /\ pc' = "efc_update") =>
              /\ Len(efc'.actuators) = Len(efc.actuators) + 1
              /\ EntryValue(efc'.actuators[Len(efc'.actuators)],
                            efc'.current_actuators) = efc.current_actuators
              /\ efc.current_actuators =
                     Commands(efc.args.get_image, mirrors)
       /\ (pc = "efc_update" /\ pc' = "efc_eval") =>
              /\ Len(efc'.actuators) = Len(efc.actuators)
              /\ \A k \in 1..Len(efc.actuators) :
                     EntryValue(efc'.actuators[k], efc'.current_actuators) =
                         EntryValue(efc.actuators[k], efc.current_actuators)
       /\ (pc = "efc_eval" /\ pc' = "idle" /\ efc.i = NumIterations) =>
              /\ Len(returned'.value.actuators) = Len(efc.actuators)
              /\ \A k \in 1..Len(efc.actuators) :
                     returned'.value.actuators[k] = efc.actuators[k].value]_vars

\* a run has returned a history whose entries differ from one another,
\* the vector having been updated in place after each was appended
C21_DistinctEntriesReturned ==
    /\ pc = "idle"
    /\ returned.fn = "run_efc"
    /\ Len(returned.value.actuators) = NumIterations
    /\ returned.value.actuators[1] # returned.value.actuators[2]
    /\ returned.value.actuators[2] # returned.value.actuators[3]
    /\ returned.value.actuators[NumIterations - 1] #
           returned.value.actuators[NumIterations]

\* C22: when run_efc returns, the actuator vector it holds is the last
\* entry of the history minus the correction of the last iteration, and
\* that vector is not handed out: the result is the three lists of
\* NumIterations entries and nothing else, made from NumIterations
\* evaluations, one per entry; the first entry is all zero and every later
\* entry is its predecessor minus the predecessor's correction, so the
\* history shows NumIterations - 1 corrections.
C22_LastCorrectionNotExposed ==
    [][(pc = "efc_eval" /\ efc.i = NumIterations /\ pc' = "idle") =>
          LET hist == returned'.value.actuators
              Correction(k) ==
                  LET y == Dot(efc.efc_matrix,
                               ErrorVector(returned'.value.electric_fields[k],
                                           efc.args.dark_zone))
                  IN  [j \in 1..Len(hist[k]) |->
                          DMul(efc_loop_gain,
                               IF Len(y) = 1 THEN y[1] ELSE y[j])]
              Corrected(k) ==
                  [j \in 1..Len(hist[k]) |->
                      DSub(hist[k][j], Correction(k)[j])]
          IN  /\ DOMAIN returned'.value =
                     {"actuators", "electric_fields", "images"}
              /\ Len(hist) = NumIterations
              /\ Len(returned'.value.electric_fields) = NumIterations
              /\ Len(returned'.value.images) = NumIterations
              /\ efc.evaluations = NumIterations
              /\ hist[1] = Zeros(efc.args.num_modes)
              /\ \A k \in 2..NumIterations : hist[k] = Corrected(k - 1)
              /\ efc.current_actuators = Corrected(NumIterations)]_vars

\* the loop is over and the last update has moved the vector away from
\* the last entry of the history
C22_FinalVectorUnlogged ==
    /\ pc = "efc_eval"
    /\ efc.i = NumIterations
    /\ Len(efc.actuators) = NumIterations
    /\ efc.current_actuators #
           EntryValue(efc.actuators[NumIterations], efc.current_actuators)

\* mirrors of the section that hold the commands v
MirrorsHolding(v) ==
    [deformable_mirror |-> v,
     dm1 |-> SubSeq(v, 1, Min(NumActuators, Len(v))),
     dm2 |-> SubSeq(v, NumActuators + 1, Len(v))]

\* commands a mirror may have been left with: none, the last probe of
\* get_jacobian_matrix, and a vector that is neither
LeftCommands(n) ==
    {Zeros(n), VecScale(epsilon, EyeRow(n, n)), [j \in 1..n |-> DInt(j)]}

\* C23: get_jacobian_matrix returns with the mirrors at its last probe,
\* +epsilon on the last actuator; the replay of a history leaves them at
\* the last entry of that history; every evaluation of run_efc returns the
\* field it would return had the mirrors been left with any other commands;
\* and two runs with the same arguments and the same globals return the
\* same histories, whatever the mirrors held when each began.
C23_MirrorLeftButRunUnaffected ==
    [][/\ (pc = "gj_return" /\ pc' = "idle") =>
              /\ mirrors' = mirrors
              /\ Commands(gj.args.get_image, mirrors') =
                     [j \in 1..gj.args.num_modes |->
                         IF j = gj.args.num_modes THEN gj.env.epsilon
                         ELSE DZero]
       /\ (pc = "idle" /\ pc' = "idle" /\ section' = section) =>
              /\ returned.fn = "run_efc"
              /\ Commands(section, mirrors') =
                     returned.value.actuators[Len(returned.value.actuators)]
       /\ (pc = "efc_eval" /\ pc' = "efc_log") =>
              \A v \in LeftCommands(Len(Commands(efc.args.get_image,
                                                 mirrors))) :
                  get_image(train, efc.args.get_image, MirrorsHolding(v),
                            Given(efc.current_actuators),
                            TRUE).electric_field = efc'.img.electric_field
       /\ (/\ returned'.fn = "run_efc"
           /\ returned_prev'.fn = "run_efc"
           /\ returned_prev'.args = returned'.args
           /\ returned_prev'.env = returned'.env) =>
              returned_prev'.value = returned'.value]_vars

\* a second run has returned the history of the first, having begun with
\* the mirrors where the first run, or the replay of its history, left
\* them, and not at rest as the first did
C23_SecondRunFromLeftMirrors ==
    /\ pc = "idle"
    /\ calls = MaxCalls
    /\ returned.fn = "run_efc"
    /\ returned_prev.fn = "run_efc"
    /\ returned_prev.args = returned.args
    /\ returned_prev.env = returned.env
    /\ returned_prev.value = returned.value
    /\ returned_prev.value.actuators[NumIterations] #
           Zeros(Len(returned_prev.value.actuators[NumIterations]))
    /\ Commands(section, mirrors) #
           Zeros(Len(Commands(section, mirrors)))
====
